---- MODULE Spec2Model ----
(***************************************************************************)
(* A model of validator.py: the FSEQ light show validator.                 *)
(*                                                                         *)
(* The program is `validate(file)` (lines 20-79) called by the command     *)
(* line (lines 81-97).  The state is the byte stream `file` (held in       *)
(* `source`, see below) and the frame                                      *)
(* `run` of the call: the stream position, validate's locals, the pending  *)
(* exception or the returned result, what was printed and the exit status. *)
(* Every I/O operation of validate is one action, so that the stream       *)
(* position can be followed operation by operation.                        *)
(*                                                                         *)
(* Numbers.  duration_s and memory_usage are Python floats obtained by one *)
(* division of two integers below 2^53; they are kept as the exact         *)
(* fraction [num, den].  Both comparisons of the program, duration_s > 300 *)
(* and memory_usage > 1, compare such a quotient with an integer k that is *)
(* itself a float: the correctly rounded quotient exceeds k exactly when   *)
(* num > k * den, which is how GtInt decides it.                           *)
(***************************************************************************)
EXTENDS Integers, Sequences, FiniteSets, TLC

VARIABLES source, run, twin_file, twin

vars == <<source, run, twin_file, twin>>

(***************************************************************************)
(* Bounds of the model.                                                    *)
(***************************************************************************)
MaxFrames == 2

(***************************************************************************)
(* Program constants.                                                      *)
(***************************************************************************)
MEMORY_LIMIT == 3500

Byte == 0..255

Min(a, b) == IF a < b THEN a ELSE b

(***************************************************************************)
(* The stream is held as `source`: its first bytes, a block of bytes       *)
(* repeated a number of times, and its last bytes.  `file` is the stream   *)
(* of bytes itself, which is all the program sees.                         *)
(***************************************************************************)
RECURSIVE Cycle(_, _)
Cycle(period, times) ==
    IF times = 0 THEN <<>>
    ELSE IF times % 2 = 1 THEN period \o Cycle(period, times - 1)
    ELSE Cycle(period \o period, times \div 2)

Bytes(src) == src.head \o Cycle(src.period, src.times) \o src.tail

Plain(bytes) == [head |-> bytes, period |-> <<>>, times |-> 0, tail |-> <<>>]

file == Bytes(source)

(***************************************************************************)
(* Python values.                                                          *)
(***************************************************************************)
\* None is the empty sequence and a value x that is not None is <<x>>, so
\* that `v != prev` of the program is `<<v>> # prev` here.
None == <<>>

NoException == [type |-> "None", msg |-> "", arg |-> 0]

ValidationError(msg, arg) == [type |-> "ValidationError", msg |-> msg, arg |-> arg]

\* struct.unpack raises struct.error when the buffer has not the size of the format.
StructError(need) == [type |-> "struct.error", msg |-> "unpack requires a buffer", arg |-> need]

ValidationResults(frame_count, step_time, duration_s, memory_usage) ==
    [frame_count |-> frame_count, step_time |-> step_time,
     duration_s |-> duration_s, memory_usage |-> memory_usage]

\* a / b of two integers, as the exact fraction.
TrueDiv(a, b) == [num |-> a, den |-> b]

\* q > k for a quotient q and an integer k.
GtInt(q, k) == q.num > k * q.den

(***************************************************************************)
(* The stream: file.read(n), file.seek(k), file.seek(k, 1).                *)
(***************************************************************************)
\* The bytes file.read(n) returns at position pos: at most n, fewer at the
\* end of the stream, none at or after the end.
ReadBytes(f, pos, n) ==
    IF pos >= Len(f) THEN <<>> ELSE SubSeq(f, pos + 1, Min(pos + n, Len(f)))

\* struct.unpack of little-endian unsigned fields.
U8(b, i) == b[i]
U16LE(b, i) == b[i] + 256 * b[i + 1]
U32LE(b, i) == b[i] + 256 * b[i + 1] + 65536 * b[i + 2] + 16777216 * b[i + 3]

PSEQ == <<80, 83, 69, 81>>

(***************************************************************************)
(* validate, lines 23-28: reading the header.                              *)
(***************************************************************************)
\* line 23: magic = file.read(4)
ReadMagic(f, r) ==
    LET data == ReadBytes(f, r.pos, 4) IN
    [r EXCEPT !.magic = data, !.pos = r.pos + Len(data), !.pc = "unpack_start"]

\* line 24: start, minor, major = struct.unpack("<HBB", file.read(4))
UnpackStart(f, r) ==
    LET data == ReadBytes(f, r.pos, 4) IN
    IF Len(data) # 4
    THEN [r EXCEPT !.pos = r.pos + Len(data), !.exc = StructError(4), !.pc = "raised"]
    ELSE [r EXCEPT !.pos = r.pos + 4,
                   !.start = U16LE(data, 1), !.minor = U8(data, 3), !.major = U8(data, 4),
                   !.pc = "seek_10"]

\* line 25: file.seek(10)
Seek10(f, r) == [r EXCEPT !.pos = 10, !.pc = "unpack_counts"]

\* line 26: channel_count, frame_count, step_time = struct.unpack("<IIB", file.read(9))
UnpackCounts(f, r) ==
    LET data == ReadBytes(f, r.pos, 9) IN
    IF Len(data) # 9
    THEN [r EXCEPT !.pos = r.pos + Len(data), !.exc = StructError(9), !.pc = "raised"]
    ELSE [r EXCEPT !.pos = r.pos + 9,
                   !.channel_count = U32LE(data, 1), !.frame_count = U32LE(data, 5),
                   !.step_time = U8(data, 9),
                   !.pc = "seek_20"]

\* line 27: file.seek(20)
Seek20(f, r) == [r EXCEPT !.pos = 20, !.pc = "unpack_compression"]

\* line 28: compression_type, = struct.unpack("<B", file.read(1))
UnpackCompression(f, r) ==
    LET data == ReadBytes(f, r.pos, 1) IN
    IF Len(data) # 1
    THEN [r EXCEPT !.exc = StructError(1), !.pc = "raised"]
    ELSE [r EXCEPT !.pos = r.pos + 1, !.compression_type = U8(data, 1),
                   !.pc = "validate_header"]

(***************************************************************************)
(* validate, lines 31-45: validating the header.                           *)
(***************************************************************************)
\* FormatBad without the test of step_time.
FormatBadNoStepTime(r) ==
    (r.magic # PSEQ) \/ (r.start < 24) \/ (r.frame_count < 1)

\* line 31: (magic != b'PSEQ') or (start < 24) or (frame_count < 1) or (step_time < 15)
FormatBad(r) ==
    (r.magic # PSEQ) \/ (r.start < 24) \/ (r.frame_count < 1) \/ (r.step_time < 15)

\* line 37: duration_s = (frame_count * step_time / 1000)
Duration(frame_count, step_time) == TrueDiv(frame_count * step_time, 1000)

\* DurationTooLong with >= for >.
DurationTooLongInclusive(d) == d.num >= (5 * 60) * d.den

\* line 38: duration_s > 5*60
DurationTooLong(d) == GtInt(d, 5 * 60)

\* line 40: ((minor != 0) and (minor != 2)) or (major != 2)
VersionUnvalidated(minor, major) == ((minor # 0) /\ (minor # 2)) \/ (major # 2)

Line(text, args) == [text |-> text, args |-> args]

Raise(r, e) == [r EXCEPT !.exc = e, !.pc = "raised"]

\* VersionAdvisory raising instead of printing.
VersionFatal(r) ==
    IF ((r.minor # 0) /\ (r.minor # 2)) \/ (r.major # 2)
    THEN Raise(r, ValidationError("Unknown file format, expected FSEQ v2.0", 0))
    ELSE r

\* lines 40-45: the warning is printed and validate goes on.
VersionAdvisory(r) ==
    IF VersionUnvalidated(r.minor, r.major)
    THEN [r EXCEPT !.stdout = r.stdout \o
            << Line("", <<>>),
               Line("WARNING: FSEQ version is {major}.{minor}. Only version 2.0 and 2.2 have been validated.",
                    <<r.major, r.minor>>),
               Line("If the car fails to read this file, download and older version of XLights", <<>>),
               Line("Please report this message", <<>>),
               Line("", <<>>) >>]
    ELSE r

\* ValidateHeader testing the compression before the channel count.
ValidateHeaderCompressionFirst(f, r) ==
    IF FormatBad(r)
    THEN Raise(r, ValidationError("Unknown file format, expected FSEQ v2.0", 0))
    ELSE IF r.compression_type # 0
    THEN Raise(r, ValidationError("Expected file format to be V2 Uncompressed", 0))
    ELSE IF r.channel_count # 48
    THEN Raise(r, ValidationError("Expected 48 channels, got {channel_count}", r.channel_count))
    ELSE LET d == Duration(r.frame_count, r.step_time) IN
         IF DurationTooLong(d)
         THEN Raise([r EXCEPT !.duration_s = d],
                    ValidationError("Expected total duration to be less than 5 minutes, got {duration_s}",
                                    d.num))
         ELSE VersionAdvisory([r EXCEPT !.duration_s = d, !.pc = "seek_start"])

\* lines 31-45
ValidateHeader(f, r) ==
    IF FormatBad(r)
    THEN Raise(r, ValidationError("Unknown file format, expected FSEQ v2.0", 0))
    ELSE IF r.channel_count # 48
    THEN Raise(r, ValidationError("Expected 48 channels, got {channel_count}", r.channel_count))
    ELSE IF r.compression_type # 0
    THEN Raise(r, ValidationError("Expected file format to be V2 Uncompressed", 0))
    ELSE LET d == Duration(r.frame_count, r.step_time) IN
         IF DurationTooLong(d)
         THEN Raise([r EXCEPT !.duration_s = d],
                    ValidationError("Expected total duration to be less than 5 minutes, got {duration_s}",
                                    d.num))
         ELSE VersionAdvisory([r EXCEPT !.duration_s = d, !.pc = "seek_start"])

(***************************************************************************)
(* validate, lines 48-79: the frames.                                      *)
(***************************************************************************)
\* lines 48-54: file.seek(start); the four previous states are None, count = 0
SeekStart(f, r) ==
    [r EXCEPT !.pos = r.start,
              !.prev_light = None, !.prev_ramp = None,
              !.prev_closure_1 = None, !.prev_closure_2 = None,
              !.count = 0, !.pc = "for"]

\* line 79: return ValidationResults(frame_count, step_time, duration_s, count / MEMORY_LIMIT)
Return(r) ==
    [r EXCEPT !.result = << ValidationResults(r.frame_count, r.step_time, r.duration_s,
                                               TrueDiv(r.count, MEMORY_LIMIT)) >>,
              !.pc = "returned"]

\* ForFrame running one frame too many: range(frame_count + 1).
ForFrameOneMore(f, r) ==
    IF r.range_next <= r.frame_count
    THEN [r EXCEPT !.frame_i = r.range_next, !.range_next = r.range_next + 1,
                   !.pc = "read_lights"]
    ELSE Return(r)

\* line 56: for frame_i in range(frame_count); range_next is the iterator's position
ForFrame(f, r) ==
    IF r.range_next < r.frame_count
    THEN [r EXCEPT !.frame_i = r.range_next, !.range_next = r.range_next + 1,
                   !.pc = "read_lights"]
    ELSE Return(r)

\* line 57: lights = file.read(30)
ReadLights(f, r) ==
    LET data == ReadBytes(f, r.pos, 30) IN
    [r EXCEPT !.lights = data, !.pos = r.pos + Len(data), !.pc = "read_closures"]

\* line 58: closures = file.read(16)
ReadClosures(f, r) ==
    LET data == ReadBytes(f, r.pos, 16) IN
    [r EXCEPT !.closures = data, !.pos = r.pos + Len(data), !.pc = "skip_reserved"]

\* line 59: file.seek(2, 1)
SkipReserved(f, r) == [r EXCEPT !.pos = r.pos + 2, !.pc = "compare"]

\* s[:n] and s[n:] of Python
Take(s, n) == IF Len(s) <= n THEN s ELSE SubSeq(s, 1, n)
Drop(s, n) == IF Len(s) <= n THEN <<>> ELSE SubSeq(s, n + 1, Len(s))

\* line 62: (b > 127)
LightOn(b) == b > 127

\* RampLevel without the clamp to 3.
RampLevelUnclamped(b) == ((IF b > 127 THEN 255 - b ELSE b) \div 13 + 1) \div 2

\* RampLevel folding the high half with 256 - b.
RampLevelFold256(b) == Min(((IF b > 127 THEN 256 - b ELSE b) \div 13 + 1) \div 2, 3)

\* line 63: min((((255 - b) if (b > 127) else (b)) // 13 + 1) // 2, 3)
RampLevel(b) == Min(((IF b > 127 THEN 255 - b ELSE b) \div 13 + 1) \div 2, 3)

\* ClosureLevel clamped to 3 as the ramp level is.
ClosureLevelClamped(b) == Min((b \div 32 + 1) \div 2, 3)

\* line 64: ((b // 32 + 1) // 2)
ClosureLevel(b) == (b \div 32 + 1) \div 2

\* line 62
LightState(lights) == [i \in 1..Len(lights) |-> LightOn(lights[i])]
\* line 63
RampState(lights) == [i \in 1..Len(Take(lights, 14)) |-> RampLevel(lights[i])]
\* line 64
ClosureState(closures) == [i \in 1..Len(closures) |-> ClosureLevel(closures[i])]

\* Differs taking None for "no change".
DiffersUnlessNone(state, prev) == prev # None /\ <<state>> # prev

\* Differs comparing the objects, which are never the same.
DiffersAlways(state, prev) == TRUE

\* `state != prev` of lines 67, 70, 73, 76
Differs(state, prev) == <<state>> # prev

\* Compare with the four tests chained by elif: one change at most is counted.
CompareElif(f, r) ==
    LET light_state == LightState(r.lights)
        ramp_state == RampState(r.lights)
        closure_state == ClosureState(r.closures)
        c1 == Take(closure_state, 10)
        c2 == Drop(closure_state, 10)
        d1 == Differs(light_state, r.prev_light)
        d2 == ~d1 /\ Differs(ramp_state, r.prev_ramp)
        d3 == ~d1 /\ ~d2 /\ Differs(c1, r.prev_closure_1)
        d4 == ~d1 /\ ~d2 /\ ~d3 /\ Differs(c2, r.prev_closure_2)
    IN [r EXCEPT !.light_state = light_state, !.ramp_state = ramp_state,
                 !.closure_state = closure_state,
                 !.prev_light = IF d1 THEN <<light_state>> ELSE r.prev_light,
                 !.prev_ramp = IF d2 THEN <<ramp_state>> ELSE r.prev_ramp,
                 !.prev_closure_1 = IF d3 THEN <<c1>> ELSE r.prev_closure_1,
                 !.prev_closure_2 = IF d4 THEN <<c2>> ELSE r.prev_closure_2,
                 !.count = r.count + (IF d1 \/ d2 \/ d3 \/ d4 THEN 1 ELSE 0),
                 !.pc = "for"]

\* Compare keeping the first ramp state it saw: line 71 only while prev_ramp is None.
CompareKeepsFirstRamp(f, r) ==
    LET light_state == LightState(r.lights)
        ramp_state == RampState(r.lights)
        closure_state == ClosureState(r.closures)
        c1 == Take(closure_state, 10)
        c2 == Drop(closure_state, 10)
        d1 == Differs(light_state, r.prev_light)
        d2 == Differs(ramp_state, r.prev_ramp)
        d3 == Differs(c1, r.prev_closure_1)
        d4 == Differs(c2, r.prev_closure_2)
        n(d) == IF d THEN 1 ELSE 0
    IN [r EXCEPT !.light_state = light_state, !.ramp_state = ramp_state,
                 !.closure_state = closure_state,
                 !.prev_light = IF d1 THEN <<light_state>> ELSE r.prev_light,
                 !.prev_ramp = IF r.prev_ramp = None THEN <<ramp_state>> ELSE r.prev_ramp,
                 !.prev_closure_1 = IF d3 THEN <<c1>> ELSE r.prev_closure_1,
                 !.prev_closure_2 = IF d4 THEN <<c2>> ELSE r.prev_closure_2,
                 !.count = r.count + n(d1) + n(d2) + n(d3) + n(d4),
                 !.pc = "for"]

\* lines 62-78: the frame's states, and the four comparisons in order
Compare(f, r) ==
    LET light_state == LightState(r.lights)
        ramp_state == RampState(r.lights)
        closure_state == ClosureState(r.closures)
        c1 == Take(closure_state, 10)
        c2 == Drop(closure_state, 10)
        d1 == Differs(light_state, r.prev_light)
        d2 == Differs(ramp_state, r.prev_ramp)
        d3 == Differs(c1, r.prev_closure_1)
        d4 == Differs(c2, r.prev_closure_2)
        n(d) == IF d THEN 1 ELSE 0
    IN [r EXCEPT !.light_state = light_state, !.ramp_state = ramp_state,
                 !.closure_state = closure_state,
                 !.prev_light = IF d1 THEN <<light_state>> ELSE r.prev_light,
                 !.prev_ramp = IF d2 THEN <<ramp_state>> ELSE r.prev_ramp,
                 !.prev_closure_1 = IF d3 THEN <<c1>> ELSE r.prev_closure_1,
                 !.prev_closure_2 = IF d4 THEN <<c2>> ELSE r.prev_closure_2,
                 !.count = r.count + n(d1) + n(d2) + n(d3) + n(d4),
                 !.pc = "for"]

(***************************************************************************)
(* The command line, lines 87-97.                                          *)
(***************************************************************************)
\* lines 90-92: except ValidationError as e: print(e); sys.exit(1)
Except(r) ==
    [r EXCEPT !.stdout = r.stdout \o << Line(r.exc.msg, <<r.exc.arg>>) >>,
              !.exit_status = 1, !.pc = "exited"]

\* lines 87-92: an exception that is no ValidationError is not caught; the
\* interpreter prints the traceback on stderr and the process exits with 1.
Uncaught(r) ==
    [r EXCEPT !.stderr = r.stderr \o << Line("Traceback (most recent call last)", <<>>),
                                         Line(r.exc.type, <<r.exc.arg>>) >>,
              !.exit_status = 1, !.pc = "exited"]

\* Report exiting with 1 from memory_usage = 1 on.
ReportInclusive(r) ==
    LET results == r.result[1] IN
    [r EXCEPT !.stdout = r.stdout \o
                << Line("Found {frame_count} frames, step time of {step_time} ms for a total duration of {duration_s}.",
                        <<results.frame_count, results.step_time, results.duration_s.num>>),
                   Line("Used {memory_usage*100:.2f}% of the available memory",
                        <<results.memory_usage.num>>) >>,
              !.exit_status = IF results.memory_usage.num >= results.memory_usage.den THEN 1 ELSE 0,
              !.pc = "exited"]

\* lines 94-97: the two lines of the report; sys.exit(1) if memory_usage > 1
Report(r) ==
    LET results == r.result[1] IN
    [r EXCEPT !.stdout = r.stdout \o
                << Line("Found {frame_count} frames, step time of {step_time} ms for a total duration of {duration_s}.",
                        <<results.frame_count, results.step_time, results.duration_s.num>>),
                   Line("Used {memory_usage*100:.2f}% of the available memory",
                        <<results.memory_usage.num>>) >>,
              !.exit_status = IF GtInt(results.memory_usage, 1) THEN 1 ELSE 0,
              !.pc = "exited"]

\* One step of the program at r.pc; r itself once the process has exited.
Step(f, r) ==
    CASE r.pc = "read_magic" -> ReadMagic(f, r)
      [] r.pc = "unpack_start" -> UnpackStart(f, r)
      [] r.pc = "seek_10" -> Seek10(f, r)
      [] r.pc = "unpack_counts" -> UnpackCounts(f, r)
      [] r.pc = "seek_20" -> Seek20(f, r)
      [] r.pc = "unpack_compression" -> UnpackCompression(f, r)
      [] r.pc = "validate_header" -> ValidateHeader(f, r)
      [] r.pc = "seek_start" -> SeekStart(f, r)
      [] r.pc = "for" -> ForFrame(f, r)
      [] r.pc = "read_lights" -> ReadLights(f, r)
      [] r.pc = "read_closures" -> ReadClosures(f, r)
      [] r.pc = "skip_reserved" -> SkipReserved(f, r)
      [] r.pc = "compare" -> Compare(f, r)
      [] r.pc = "returned" -> Report(r)
      [] r.pc = "raised" /\ r.exc.type = "ValidationError" -> Except(r)
      [] r.pc = "raised" /\ r.exc.type # "ValidationError" -> Uncaught(r)
      [] OTHER -> r

(***************************************************************************)
(* The streams the model is run on.                                        *)
(***************************************************************************)
Zeros(n) == [i \in 1..n |-> 0]

LE16(v) == << v % 256, (v \div 256) % 256 >>
LE32(v) == << v % 256, (v \div 256) % 256, (v \div 65536) % 256, (v \div 16777216) % 256 >>

\* The layout of the header; bytes 8-9 and 19 are not read by the program.
\* The header is padded with zeros up to byte 24.
HeaderBytes(magic, start, minor, major, channel_count, frame_count, step_time, compression_type) ==
    magic \o LE16(start) \o <<minor, major>> \o Zeros(2)
          \o LE32(channel_count) \o LE32(frame_count) \o <<step_time>> \o Zeros(1)
          \o <<compression_type>> \o Zeros(3)

ValidHeader(frame_count, step_time) == HeaderBytes(PSEQ, 24, 0, 2, 48, frame_count, step_time, 0)

\* A frame of 48 bytes: lights 0 and 14, closures 0 and 10 and the two
\* reserved bytes are given, every other byte is 0.
FrameBytes(l0, l14, c0, c10, rsv) ==
    <<l0>> \o Zeros(13) \o <<l14>> \o Zeros(15) \o <<c0>> \o Zeros(9) \o <<c10>> \o Zeros(5)
           \o <<rsv, rsv>>

ZeroFrame == FrameBytes(0, 0, 0, 0, 0)

\* Frames that differ from the zero frame in the light state and the ramp
\* state (200), the ramp state alone (13), the light state alone (light 14),
\* the first closure group (255), the second closure group (64), the
\* reserved bytes alone, and in no state at all (closure byte 31, ramp byte 12).
FramePatterns ==
    { ZeroFrame,
      FrameBytes(200, 0, 0, 0, 0), FrameBytes(13, 0, 0, 0, 0), FrameBytes(0, 200, 0, 0, 0),
      FrameBytes(0, 0, 255, 0, 0), FrameBytes(0, 0, 0, 64, 0), FrameBytes(0, 0, 0, 0, 9),
      FrameBytes(12, 0, 31, 0, 0) }

RECURSIVE Flatten(_)
Flatten(ss) == IF ss = <<>> THEN <<>> ELSE Head(ss) \o Flatten(Tail(ss))

Repeat(frame, n) == Flatten([i \in 1..n |-> frame])

\* Bodies of 0..MaxFrames frames drawn from the patterns.
Bodies == UNION { { Flatten(fs) : fs \in [1..n -> FramePatterns] } : n \in 0..MaxFrames }

\* Valid headers over every body: declared frame counts 1..MaxFrames + 1,
\* so a body may be shorter, equal or longer than declared.
BodyStreams ==
    { ValidHeader(fc, 20) \o body : fc \in 1..(MaxFrames + 1), body \in Bodies }

\* Every combination of header field values around each check.
HeaderStreams ==
    { HeaderBytes(magic, start, v[1], v[2], cc, fc, st, ct) \o Repeat(FrameBytes(200, 0, 255, 0, 0), 1)
        \o Zeros(2) :
        magic \in {PSEQ, <<80, 83, 69, 80>>}, start \in {23, 24, 26},
        v \in {<<0, 2>>, <<2, 2>>, <<1, 2>>, <<0, 1>>},
        cc \in {48, 47, 48 + 65536}, fc \in {0, 1, 2}, st \in {14, 15, 255}, ct \in {0, 1} }

\* The duration limit: 300 s exactly and the first durations above it.
DurationStreams ==
    { ValidHeader(fc_st[1], fc_st[2]) \o ZeroFrame :
        fc_st \in { <<20000, 15>>, <<20001, 15>>, <<1200, 250>>, <<1201, 250>>,
                    <<1176, 255>>, <<1177, 255>> } }

\* A stream cut anywhere in the header or in its frames.
CutStreams ==
    LET full(magic) == HeaderBytes(magic, 24, 0, 2, 48, 2, 20, 0)
                          \o FrameBytes(200, 0, 255, 64, 0) \o FrameBytes(200, 0, 255, 64, 0)
    IN { SubSeq(full(magic), 1, n) : magic \in {PSEQ, <<80, 83, 69, 80>>}, n \in 0..Len(full(PSEQ)) }

\* Ten frames declared, five present.
HalfStream == ValidHeader(10, 20) \o Repeat(ZeroFrame, 5)

\* One frame whose first light byte and first closure byte take every value.
ByteStreams == { ValidHeader(1, 20) \o FrameBytes(b, 0, b, 0, 0) : b \in Byte }

\* A duration above the limit together with the other violations.
OrderStreams ==
    { HeaderBytes(magic, start, 0, 2, cc, 20001, 15, ct) \o ZeroFrame :
        magic \in {PSEQ, <<80, 83, 69, 80>>}, start \in {23, 24}, cc \in {48, 47}, ct \in {0, 1} }

Streams == BodyStreams \cup HeaderStreams \cup DurationStreams \cup CutStreams
              \cup {HalfStream} \cup ByteStreams \cup OrderStreams

(***************************************************************************)
(* The state machine.                                                      *)
(***************************************************************************)
\* The process before line 23: the file is open at position 0.  A local
\* that is not yet bound holds 0 or an empty sequence.
InitRun ==
    [pc |-> "read_magic", pos |-> 0,
     magic |-> <<>>, start |-> 0, minor |-> 0, major |-> 0,
     channel_count |-> 0, frame_count |-> 0, step_time |-> 0, compression_type |-> 0,
     duration_s |-> TrueDiv(0, 1000),
     prev_light |-> None, prev_ramp |-> None, prev_closure_1 |-> None, prev_closure_2 |-> None,
     count |-> 0, range_next |-> 0, frame_i |-> 0,
     lights |-> <<>>, closures |-> <<>>,
     light_state |-> <<>>, ramp_state |-> <<>>, closure_state |-> <<>>,
     exc |-> NoException, result |-> None,
     stdout |-> <<>>, stderr |-> <<>>, exit_status |-> -1]

Init ==
    /\ source \in { Plain(b) : b \in Streams }
    /\ run = InitRun
    /\ twin_file = <<>>
    /\ twin = InitRun

At(pc) == run.pc = pc

ReadMagicStep == At("read_magic") /\ run' = ReadMagic(file, run) /\ UNCHANGED <<source, twin_file, twin>>
UnpackStartStep == At("unpack_start") /\ run' = UnpackStart(file, run) /\ UNCHANGED <<source, twin_file, twin>>
Seek10Step == At("seek_10") /\ run' = Seek10(file, run) /\ UNCHANGED <<source, twin_file, twin>>
UnpackCountsStep == At("unpack_counts") /\ run' = UnpackCounts(file, run) /\ UNCHANGED <<source, twin_file, twin>>
Seek20Step == At("seek_20") /\ run' = Seek20(file, run) /\ UNCHANGED <<source, twin_file, twin>>
UnpackCompressionStep ==
    At("unpack_compression") /\ run' = UnpackCompression(file, run) /\ UNCHANGED <<source, twin_file, twin>>
ValidateHeaderStep ==
    At("validate_header") /\ run' = ValidateHeader(file, run) /\ UNCHANGED <<source, twin_file, twin>>
SeekStartStep == At("seek_start") /\ run' = SeekStart(file, run) /\ UNCHANGED <<source, twin_file, twin>>
ForFrameStep == At("for") /\ run' = ForFrame(file, run) /\ UNCHANGED <<source, twin_file, twin>>
ReadLightsStep == At("read_lights") /\ run' = ReadLights(file, run) /\ UNCHANGED <<source, twin_file, twin>>
ReadClosuresStep == At("read_closures") /\ run' = ReadClosures(file, run) /\ UNCHANGED <<source, twin_file, twin>>
SkipReservedStep == At("skip_reserved") /\ run' = SkipReserved(file, run) /\ UNCHANGED <<source, twin_file, twin>>
CompareStep == At("compare") /\ run' = Compare(file, run) /\ UNCHANGED <<source, twin_file, twin>>
ExceptStep ==
    /\ At("raised") /\ run.exc.type = "ValidationError"
    /\ run' = Except(run) /\ UNCHANGED <<source, twin_file, twin>>
UncaughtStep ==
    /\ At("raised") /\ run.exc.type # "ValidationError"
    /\ run' = Uncaught(run) /\ UNCHANGED <<source, twin_file, twin>>
ReportStep == At("returned") /\ run' = Report(run) /\ UNCHANGED <<source, twin_file, twin>>

Next ==
    \/ ReadMagicStep
    \/ UnpackStartStep
    \/ Seek10Step
    \/ UnpackCountsStep
    \/ Seek20Step
    \/ UnpackCompressionStep
    \/ ValidateHeaderStep
    \/ SeekStartStep
    \/ ForFrameStep
    \/ ReadLightsStep
    \/ ReadClosuresStep
    \/ SkipReservedStep
    \/ CompareStep
    \/ ExceptStep
    \/ UncaughtStep
    \/ ReportStep

Spec == Init /\ [][Next]_vars

\* The program is sequential and nothing suspends it: while it has a next
\* step, it takes it.
InitLoop ==
    /\ source \in { Plain(b) : b \in BodyStreams \cup HeaderStreams \cup CutStreams
                                       \cup {HalfStream} \cup OrderStreams }
    /\ run = InitRun
    /\ twin_file = <<>>
    /\ twin = InitRun

SpecFair == InitLoop /\ [][Next]_vars /\ WF_vars(Next)

(***************************************************************************)
(* Shows at the memory limit.                                              *)
(***************************************************************************)
\* The zero frame and then a frame that differs from it in all four groups:
\* repeated, every frame counts 4.
TwoFrames == ZeroFrame \o FrameBytes(200, 0, 255, 64, 0)

\* The number of frames that reaches MEMORY_LIMIT exactly.
LimitFrames == MEMORY_LIMIT \div 4

\* LimitFrames frames that count 4 each (a count of exactly MEMORY_LIMIT);
\* one frame more that changes the light state alone (MEMORY_LIMIT + 1); one
\* frame more that changes everything.
BudgetSources ==
    { [head |-> ValidHeader(LimitFrames, 20), period |-> TwoFrames,
       times |-> LimitFrames \div 2, tail |-> ZeroFrame],
      [head |-> ValidHeader(LimitFrames + 1, 20), period |-> TwoFrames,
       times |-> LimitFrames \div 2, tail |-> ZeroFrame \o FrameBytes(0, 200, 0, 0, 0)],
      [head |-> ValidHeader(LimitFrames + 1, 20), period |-> TwoFrames,
       times |-> LimitFrames \div 2, tail |-> TwoFrames] }

InitBudget ==
    /\ source \in BudgetSources \cup { Plain(b) : b \in CutStreams \cup {HalfStream} }
    /\ run = InitRun
    /\ twin_file = <<>>
    /\ twin = InitRun

SpecBudget == InitBudget /\ [][Next]_vars

(***************************************************************************)
(* Two calls side by side, on two streams that differ in the version bytes *)
(* alone.                                                                  *)
(***************************************************************************)
\* f with the bytes at offsets 6 and 7, where it has them, set to minor and major.
WithVersion(f, minor, major) ==
    [i \in 1..Len(f) |-> IF i = 7 THEN minor ELSE IF i = 8 THEN major ELSE f[i]]

PairStreams == HeaderStreams \cup BodyStreams \cup CutStreams

InitPair ==
    /\ source \in { Plain(b) : b \in PairStreams }
    /\ run = InitRun
    /\ \E v \in {<<0, 2>>, <<2, 2>>, <<1, 2>>, <<0, 3>>} : twin_file = WithVersion(file, v[1], v[2])
    /\ twin = InitRun

PairStep ==
    /\ run.pc # "exited" \/ twin.pc # "exited"
    /\ run' = Step(file, run)
    /\ twin' = Step(twin_file, twin)
    /\ UNCHANGED <<source, twin_file>>

NextPair == PairStep

SpecPair == InitPair /\ [][NextPair]_vars

(***************************************************************************)
(* The header as laid out in the stream (lines 23-28): magic at 0, start   *)
(* at 4, minor at 6, major at 7, channel_count at 10, frame_count at 14,   *)
(* step_time at 18, compression_type at 20.                                *)
(***************************************************************************)
HasHeader(f) == Len(f) >= 21
FileMagic(f) == SubSeq(f, 1, 4)
FileStart(f) == U16LE(f, 5)
FileMinor(f) == U8(f, 7)
FileMajor(f) == U8(f, 8)
FileChannelCount(f) == U32LE(f, 11)
FileFrameCount(f) == U32LE(f, 15)
FileStepTime(f) == U8(f, 19)
FileCompressionType(f) == U8(f, 21)

\* The bytes of frame k as the loop reads them (lines 57-58).
FrameLights(f, k) == ReadBytes(f, FileStart(f) + 48 * k, 30)
FrameClosures(f, k) == ReadBytes(f, FileStart(f) + 48 * k + 30, 16)

Finished == run.pc \in {"returned", "raised", "exited"}
Failed == run.exc # NoException
FormatFailure == ValidationError("Unknown file format, expected FSEQ v2.0", 0)
IsDurationFailure(e) ==
    /\ e.type = "ValidationError"
    /\ e.msg = "Expected total duration to be less than 5 minutes, got {duration_s}"

\* Every header constraint but the duration.
FieldsValid(f) ==
    /\ HasHeader(f)
    /\ FileMagic(f) = PSEQ
    /\ FileStart(f) >= 24
    /\ FileFrameCount(f) >= 1
    /\ FileStepTime(f) >= 15
    /\ FileChannelCount(f) = 48
    /\ FileCompressionType(f) = 0

HeaderValid(f) == FieldsValid(f) /\ FileFrameCount(f) * FileStepTime(f) <= 300000

\* k frames have been processed and the next has not begun.
AfterFrames(k) == run.pc = "for" /\ run.range_next = k

(***************************************************************************)
(* Claims.                                                                 *)
(***************************************************************************)

\* C1: when the stream holds fewer than frame_count x 48 bytes after
\* data_start_offset, validate fails and never returns a result.
C1_TruncationFails ==
    (HasHeader(file) /\ Len(file) < FileStart(file) + 48 * FileFrameCount(file))
        => run.result = None

\* C2: for any stream whose first 4 bytes are not 'PSEQ', whatever its length
\* and its other bytes, validate fails with the format failure.
C2_BadMagicIsFormatFailure ==
    (Len(file) >= 4 /\ FileMagic(file) # PSEQ /\ Finished)
        => (run.exc = FormatFailure /\ run.result = None)

\* C3: validate returns a result only if the header has magic 'PSEQ',
\* data_start_offset >= 24, frame_count >= 1, step_time >= 15, 48 channels,
\* compression 0 and frame_count x step_time <= 300000; if one of them is
\* violated, no result is returned and a failure is raised.
C3_ResultOnlyIfHeaderValid ==
    /\ run.result # None => HeaderValid(file)
    /\ (Finished /\ ~HeaderValid(file)) => (run.result = None /\ Failed)

C3_Witness ==
    /\ run.pc = "returned" /\ run.result # None /\ HeaderValid(file)
    /\ FileStepTime(file) = 15 /\ FileStart(file) = 26

\* C4: with every other header field valid, validate fails with the duration
\* failure if and only if frame_count x step_time / 1000 > 300; 20000 frames
\* of 15 ms do not fail; on success the duration is frame_count x step_time / 1000.
C4_DurationFailureIff ==
    (FieldsValid(file) /\ Finished) =>
        LET F == FileFrameCount(file)
            T == FileStepTime(file)
        IN /\ IsDurationFailure(run.exc) <=> (F * T > 300 * 1000)
           /\ (F * T <= 300 * 1000) => (run.result # None /\ ~Failed)
           /\ run.result # None =>
                 (run.result[1].duration_s.num * 1000 = F * T * run.result[1].duration_s.den)
           /\ (F = 20000 /\ T = 15) => ~Failed

C4_Witness ==
    /\ FieldsValid(file) /\ FileFrameCount(file) = 20000 /\ FileStepTime(file) = 15
    /\ run.pc = "returned"
    /\ run.result[1].duration_s = TrueDiv(300000, 1000)

\* C5: after exactly one frame has been processed the count is exactly 4,
\* whatever the bytes of the frame.
C5_FirstFrameCountsFour == AfterFrames(1) => run.count = 4

C5_Witness == AfterFrames(1) /\ run.count = 4 /\ run.lights = Zeros(30) /\ run.closures = Zeros(16)

\* C6: two frames declared and two byte-identical frames present give a
\* count of 4 and a memory usage of 4/3500; and a frame whose four states
\* equal those of the frame before it adds 0 to the count.
C6_Scenario ==
    (/\ HeaderValid(file) /\ FileFrameCount(file) = 2
     /\ Len(file) >= FileStart(file) + 96
     /\ FrameLights(file, 0) = FrameLights(file, 1)
     /\ FrameClosures(file, 0) = FrameClosures(file, 1)
     /\ run.result # None)
        => (run.count = 4 /\ run.result[1].memory_usage = TrueDiv(4, 3500))

SameStates(f, i, j) ==
    /\ LightState(FrameLights(f, i)) = LightState(FrameLights(f, j))
    /\ RampState(FrameLights(f, i)) = RampState(FrameLights(f, j))
    /\ ClosureState(FrameClosures(f, i)) = ClosureState(FrameClosures(f, j))

C6_IdenticalFrameAddsNothing ==
    /\ []C6_Scenario
    /\ [][(CompareStep /\ run.frame_i >= 1 /\ SameStates(file, run.frame_i, run.frame_i - 1))
             => run'.count = run.count]_vars

C6_Witness ==
    /\ HeaderValid(file) /\ FileFrameCount(file) = 2
    /\ Len(file) = FileStart(file) + 96
    /\ FrameLights(file, 0) = FrameLights(file, 1)
    /\ FrameClosures(file, 0) = FrameClosures(file, 1)
    /\ FrameLights(file, 0)[1] = 200
    /\ run.pc = "returned" /\ run.result[1].memory_usage = TrueDiv(4, 3500)

\* C7 as stated: the ramp level of byte 0 is 0, of byte 255 is 0 and of
\* byte 127 is 2.
C7_RampLevelOf127IsTwo ==
    (run.pc = "for" /\ run.range_next >= 1) =>
        \A i \in DOMAIN run.ramp_state :
            /\ run.lights[i] = 0 => run.ramp_state[i] = 0
            /\ run.lights[i] = 255 => run.ramp_state[i] = 0
            /\ run.lights[i] = 127 => run.ramp_state[i] = 2

\* C7, amended: the ramp level of byte 0 is 0, of byte 255 is 0, and byte
\* 127, which takes the low branch (v = 127), has level
\* min((127 // 13 + 1) // 2, 3) = min(5, 3) = 3.
C7_RampLevelBoundaries ==
    (run.pc = "for" /\ run.range_next >= 1) =>
        \A i \in DOMAIN run.ramp_state :
            /\ run.lights[i] = 0 => run.ramp_state[i] = 0
            /\ run.lights[i] = 255 => run.ramp_state[i] = 0
            /\ run.lights[i] = 127 =>
                  (run.ramp_state[i] = 3 /\ ~run.light_state[i])

C7_Witness ==
    /\ AfterFrames(1) /\ Len(run.lights) = 30
    /\ run.lights[1] = 127 /\ run.ramp_state[1] = 3 /\ run.ramp_state[2] = 0

\* C8: the closure level is not clamped: byte 0 gives 0, byte 255 gives 4,
\* and over the bytes 0..255 the levels are exactly 0, 1, 2, 3, 4.
C8_ClosureLevelUnclamped ==
    /\ (run.pc = "for" /\ run.range_next >= 1) =>
          \A i \in DOMAIN run.closure_state :
              /\ run.closure_state[i] \in 0..4
              /\ run.closures[i] = 0 => run.closure_state[i] = 0
              /\ run.closures[i] = 255 => run.closure_state[i] = 4
    /\ AfterFrames(1) => { ClosureLevel(b) : b \in Byte } = 0..4

C8_Witness ==
    /\ AfterFrames(1) /\ Len(run.closures) = 16
    /\ run.closures[1] = 255 /\ run.closure_state[1] = 4 /\ run.closure_state[2] = 0

\* C9: two streams that differ only in the version bytes give the same
\* outcome, the same failure or the same result; a version other than 2.0
\* and 2.2 only prints the warning.
Outcome(r) == [exc |-> r.exc, result |-> r.result, exit_status |-> r.exit_status]

Warned(r) == \E i \in DOMAIN r.stdout : r.stdout[i].text =
    "WARNING: FSEQ version is {major}.{minor}. Only version 2.0 and 2.2 have been validated."

C9_VersionNeverChangesOutcome ==
    /\ (run.pc = "exited" /\ twin.pc = "exited") => Outcome(run) = Outcome(twin)
    /\ run.result # None =>
          (Warned(run) <=> ~(<<FileMajor(file), FileMinor(file)>> \in {<<2, 0>>, <<2, 2>>}))

C9_Witness ==
    /\ run.pc = "exited" /\ twin.pc = "exited"
    /\ run.result # None /\ twin.result = run.result
    /\ ~Warned(run) /\ Warned(twin)
    /\ run.count > 4

\* C10: every failure of validate reaches the caller as the one typed
\* validation error with its message and without a result, streams shorter
\* than the 21 header bytes included, and the command line prints the
\* message and exits with failure status.
C10_EveryFailureIsValidationError ==
    Failed =>
        /\ run.exc.type = "ValidationError" /\ run.exc.msg # ""
        /\ run.result = None
        /\ run.pc = "exited" =>
              /\ run.exit_status = 1
              /\ run.stdout # <<>>
              /\ run.stdout[Len(run.stdout)].text = run.exc.msg

\* The four states of frame k of the stream: light, ramp, closures 0-9, closures 10-15.
GroupStates(f, k) ==
    << LightState(FrameLights(f, k)), RampState(FrameLights(f, k)),
       Take(ClosureState(FrameClosures(f, k)), 10), Drop(ClosureState(FrameClosures(f, k)), 10) >>

\* The number of groups in which two frames differ.
DiffCount(a, b) == Cardinality({ g \in 1..4 : a[g] # b[g] })

\* C11: the command line exits with failure status if and only if validate
\* failed or memory_usage > 1, that is count > 3500; memory_usage is
\* count / 3500 unclamped: a count of 3500 exits with success, a count of
\* 3501 is returned as a ratio above 1 and exits with failure.
C11_ExitStatus ==
    /\ run.result # None => run.result[1].memory_usage = TrueDiv(run.count, 3500)
    /\ run.pc = "exited" =>
          /\ run.exit_status \in {0, 1}
          /\ run.exit_status = 1 <=> (Failed \/ run.count > 3500)
          /\ (~Failed /\ run.count = 3500) => run.exit_status = 0
          /\ (~Failed /\ run.count = 3501) =>
                (run.exit_status = 1 /\ GtInt(run.result[1].memory_usage, 1))

C11_Witness ==
    /\ run.pc = "exited" /\ run.count = 3501 /\ run.exit_status = 1
    /\ run.result[1].memory_usage = TrueDiv(3501, 3500)

\* C12: for every frame i >= 1, processing frame i adds to the count exactly
\* the number of the four groups whose state in frame i differs from the
\* state of the same group in frame i-1: each group at most 1, a frame
\* between 0 and 4, the groups independently of one another.
C12_FrameAddsDifferingGroups ==
    [][(CompareStep /\ run.frame_i >= 1) =>
          /\ run'.count - run.count =
                DiffCount(GroupStates(file, run.frame_i), GroupStates(file, run.frame_i - 1))
          /\ run'.count - run.count \in 0..4]_vars

C12_Witness ==
    /\ AfterFrames(2) /\ Len(file) >= FileStart(file) + 96
    /\ run.count = 5
    /\ GroupStates(file, 1)[4] # GroupStates(file, 0)[4]
    /\ GroupStates(file, 1)[3] = GroupStates(file, 0)[3]

\* C13: after each frame has been processed, each of the four previous
\* states is the state of that group in the frame just processed, whether
\* or not the group counted as changed.
C13_PreviousIsLastFrame ==
    (run.pc = "for" /\ run.range_next >= 1) =>
        /\ run.prev_light # None /\ run.prev_ramp # None
        /\ run.prev_closure_1 # None /\ run.prev_closure_2 # None
        /\ << run.prev_light[1], run.prev_ramp[1], run.prev_closure_1[1], run.prev_closure_2[1] >>
              = GroupStates(file, run.range_next - 1)

C13_Witness ==
    /\ AfterFrames(2) /\ Len(file) >= FileStart(file) + 96
    /\ GroupStates(file, 1)[2] # GroupStates(file, 0)[2]
    /\ GroupStates(file, 1)[1] = GroupStates(file, 0)[1]
    /\ run.prev_ramp = << GroupStates(file, 1)[2] >>
    /\ run.prev_light = << GroupStates(file, 1)[1] >>
    /\ run.count = 5

\* C14: during validate the stream position never moves backwards, over
\* the header reads and seeks, the seek to data_start_offset and the reads
\* and the skip of every frame, and frame i is read starting at
\* data_start_offset + 48 x i.
C14_ForwardAndAligned ==
    /\ [][run'.pos >= run.pos]_vars
    /\ [](run.pc = "read_lights" => run.pos = run.start + 48 * run.frame_i)

\* C15: for every byte b in 0..255 the ramp level is one of 0, 1, 2, 3 and
\* is the same for b and for 255 - b.
C15_RampLevelRangeAndSymmetry ==
    (run.pc = "for" /\ run.range_next >= 1) =>
        \A i \in DOMAIN run.ramp_state :
            /\ run.ramp_state[i] \in 0..3
            /\ run.ramp_state[i] = RampLevel(255 - run.lights[i])

C15_Witness ==
    /\ AfterFrames(1) /\ Len(run.lights) = 30
    /\ run.lights[1] = 242 /\ run.ramp_state[1] = 1 /\ RampLevel(13) = 1

\* The failure the order format > channel count > compression > duration
\* gives for the header of f.
FirstHeaderFailure(f) ==
    IF \/ FileMagic(f) # PSEQ \/ FileStart(f) < 24
       \/ FileFrameCount(f) < 1 \/ FileStepTime(f) < 15
    THEN FormatFailure
    ELSE IF FileChannelCount(f) # 48
    THEN ValidationError("Expected 48 channels, got {channel_count}", FileChannelCount(f))
    ELSE IF FileCompressionType(f) # 0
    THEN ValidationError("Expected file format to be V2 Uncompressed", 0)
    ELSE IF FileFrameCount(f) * FileStepTime(f) > 300000
    THEN ValidationError("Expected total duration to be less than 5 minutes, got {duration_s}",
                         FileFrameCount(f) * FileStepTime(f))
    ELSE NoException

\* C17: a header that violates several constraints fails with the first in
\* the order format (magic, data_start_offset, frame_count, step_time),
\* channel count, compression, duration; every header failure is raised
\* before a frame byte is read.
C17_FirstFailureInOrder ==
    (HasHeader(file) /\ Finished) =>
        /\ run.exc = FirstHeaderFailure(file)
        /\ Failed => (run.pos = 21 /\ run.lights = <<>> /\ run.closures = <<>>
                        /\ run.range_next = 0)

C17_Witness ==
    /\ run.pc = "raised" /\ HasHeader(file)
    /\ FileChannelCount(file) = 47 /\ FileCompressionType(file) = 1
    /\ FileFrameCount(file) * FileStepTime(file) > 300000
    /\ FileMagic(file) = PSEQ /\ FileStart(file) = 24
    /\ run.exc = ValidationError("Expected 48 channels, got {channel_count}", 47)

\* C18: the count never decreases while frames are processed; after k >= 1
\* frames it is at least 4 and at most 4 x k; every returned result has a
\* count of at least 4 and at most 4 x frame_count.
C18_CountBounds ==
    /\ [][run'.count >= run.count]_vars
    /\ []((run.pc = "for" /\ run.range_next >= 1) =>
             (4 <= run.count /\ run.count <= 4 * run.range_next))
    /\ [](run.result # None =>
             /\ 4 <= run.result[1].memory_usage.num
             /\ run.result[1].memory_usage.num <= 4 * run.result[1].frame_count)

C18_Witness ==
    /\ run.pc = "returned" /\ run.result[1].frame_count = 2
    /\ run.result[1].memory_usage.num = 8 /\ run.count = 8

\* The count of the frames from..to-1 of f, folded by Compare from the
\* empty previous state of lines 50-54.
RECURSIVE FoldFrames(_, _, _, _)
FoldFrames(f, r, k, to) ==
    IF k >= to THEN r
    ELSE FoldFrames(f, Compare(f, [r EXCEPT !.lights = FrameLights(f, k),
                                            !.closures = FrameClosures(f, k)]), k + 1, to)

ChunkCount(f, from, to) == FoldFrames(f, SeekStart(f, InitRun), from, to).count

\* C19: the count composes over chunks: for non-empty frame sequences A and
\* B, count(A B) = count(A) + count(B) - (the number of the four groups
\* whose state in the last frame of A equals its state in the first frame
\* of B).  Checked for every split of the frames processed so far, up to
\* MaxFrames + 1 frames.
C19_CountComposes ==
    (run.pc = "for" /\ run.range_next >= 2 /\ run.range_next <= MaxFrames + 1) =>
        \A k \in 1..(run.range_next - 1) :
            run.count = ChunkCount(file, 0, k) + ChunkCount(file, k, run.range_next)
                          - (4 - DiffCount(GroupStates(file, k - 1), GroupStates(file, k)))

C19_Witness ==
    /\ AfterFrames(2) /\ Len(file) >= FileStart(file) + 96
    /\ run.count = 6
    /\ ChunkCount(file, 0, 1) = 4 /\ ChunkCount(file, 1, 2) = 4
    /\ DiffCount(GroupStates(file, 0), GroupStates(file, 1)) = 2

\* C16: on a valid header the frame loop performs exactly frame_count
\* decode steps, for the indices 0 .. frame_count-1 in order, none skipped
\* and none repeated, and then terminates returning a result.
C16_LoopRunsFrameCountSteps ==
    /\ [][run'.range_next # run.range_next =>
             /\ run'.range_next = run.range_next + 1
             /\ run'.frame_i = run.range_next
             /\ run'.frame_i < run.frame_count
             /\ run'.pc = "read_lights"]_vars
    /\ [][CompareStep => (run.frame_i = run.range_next - 1 /\ run'.pc = "for")]_vars
    /\ [][(run.pc = "for" /\ run'.pc = "read_lights") => run'.range_next # run.range_next]_vars
    /\ [](run.pc = "returned" => (run.range_next = run.frame_count /\ run.result # None))
    /\ (run.pc = "seek_start") ~> (run.pc = "returned")

C16_Witness ==
    /\ run.pc = "returned" /\ run.frame_count = 3 /\ run.range_next = 3 /\ run.frame_i = 2
    /\ run.result # None

====
